---- MODULE Spec2Model ----
(***************************************************************************)
(* Model of kzkitty/api.py: the four resolvers steamid64_for_profile,      *)
(* avatar_for_steamid64, map_for_name and pbs_for_steamid64.  Each         *)
(* resolver is a coroutine; it is cut into one action per await of an      *)
(* HTTP response, and the outcome of the request (status, content type,    *)
(* body, or the exception aiohttp raises) is the input of that action.     *)
(***************************************************************************)
EXTENDS Integers, Sequences, FiniteSets, TLC

VARIABLES pc, op, name, mode, url, steamid64, requests, responses,
          tier, vnl_tier, vnl_pro_tier, result

vars == <<pc, op, name, mode, url, steamid64, requests, responses,
          tier, vnl_tier, vnl_pro_tier, result>>

(* ---------------- bounds ---------------- *)
MaxNameLen == 2
MaxItems == 2
MaxTextLen == 2

(* ---------------- values ---------------- *)
\* A Python/JSON scalar: t is the Python type, n the number, s the text.
Val(t, n, s) == [t |-> t, n |-> n, s |-> s]
None == Val("NoneType", 0, "")
Absent == Val("absent", 0, "")
JInt(n) == Val("int", n, "")
JBool(b) == Val("bool", b, "")
JFloat(n) == Val("float", n, "")
JStr(s) == Val("str", 0, s)
JNested(t) == Val(t, 0, "")

\* models.Mode
Mode == {"KZT", "SKZ", "VNL"}

\* isinstance(v, int): bool is a subclass of int in Python.
IsInstanceInt(v) == v.t \in {"int", "bool"}

IsInstanceFloat(v) == v.t = "float"

IsInstanceStr(v) == v.t = "str"

\* dict.get(key): a missing key reads as None.
Get(obj, key) == IF obj[key].t = "absent" THEN None ELSE obj[key]

(* ---------------- map names ---------------- *)
\* Characters are ASCII codes: - 0 A [ \ ^ _ ` z
Chars == {45, 48, 65, 91, 92, 94, 95, 96, 122}

RECURSIVE SeqsUpTo(_, _)
SeqsUpTo(S, n) ==
    IF n = 0 THEN {<<>>}
    ELSE LET shorter == SeqsUpTo(S, n - 1)
         IN shorter \cup {Append(q, c) : q \in {x \in shorter : Len(x) = n - 1}, c \in S}

Names == SeqsUpTo(Chars, MaxNameLen)

\* The character class of the pattern '[A-za-z0-9_]' as written in the code:
\* the range A-z is 65..122.
InNameClass(c) ==
    \/ (65 <= c /\ c <= 122)
    \/ (97 <= c /\ c <= 122)
    \/ (48 <= c /\ c <= 57)
    \/ c = 95

\* re.fullmatch('[A-za-z0-9_]+', name)
FullMatchName(n) == Len(n) >= 1 /\ \A i \in 1..Len(n) : InNameClass(n[i])

(* ---------------- HTTP outcomes ---------------- *)
\* What `async with session.get(url) as r` can produce: a response, or an
\* exception.  aiohttp raises subclasses of ClientError for connection
\* failures and asyncio.TimeoutError (not a ClientError) when the total
\* timeout of the session expires.
TransportExc == {"ClientError", "TimeoutError"}

Outcome(kind, exc, status, ctype, body) ==
    [kind |-> kind, exc |-> exc, status |-> status, ctype |-> ctype, body |-> body]

\* r.json(): ContentTypeError (a ClientError) unless the content type is
\* application/json, json.JSONDecodeError for an undecodable body.
RJsonExc(o) ==
    IF o.ctype # "application/json" THEN "ClientError"
    ELSE IF o.body.t = "undecodable" THEN "JSONDecodeError"
    ELSE ""

\* The try block of a JSON GET: the exception leaving the block
\* (before the except clause), "Non200" for the status branch, "" for none.
JsonFetchExc(o) ==
    IF o.kind = "error" THEN o.exc
    ELSE IF o.status # 200 THEN "Non200"
    ELSE RJsonExc(o)

(* primary registry bodies *)
Difficulties ==
    {Absent, None, JStr("3"), JFloat(3), JBool(1), JNested("list"),
     JInt(3), JInt(5)}

PrimaryBody(t, d) == [t |-> t, difficulty |-> d]

PrimaryBodies ==
    {PrimaryBody("dict", d) : d \in Difficulties}
    \cup {PrimaryBody(t, Absent) : t \in {"NoneType", "list", "str", "undecodable"}}

NoPrimaryBody == PrimaryBody("undecodable", Absent)

PrimaryOutcomes ==
    {Outcome("error", e, 0, "", NoPrimaryBody) : e \in TransportExc}
    \cup {Outcome("response", "", s, "text/html", NoPrimaryBody) : s \in {404, 500}}
    \cup {Outcome("response", "", 200, "text/html", NoPrimaryBody)}
    \cup {Outcome("response", "", 200, "application/json", b) : b \in PrimaryBodies}

(* secondary tier-rating bodies *)
VnlTierVals == {Absent, JStr("4"), JBool(1), JInt(4), JInt(6)}

VnlBody(t, tp, pro) == [t |-> t, tpTier |-> tp, proTier |-> pro]

NoVnlBody == VnlBody("undecodable", Absent, Absent)

VnlBodies ==
    {VnlBody("dict", tp, pro) : tp \in VnlTierVals, pro \in VnlTierVals}
    \cup {VnlBody(t, Absent, Absent) : t \in {"NoneType", "list", "undecodable"}}

VnlOutcomes ==
    {Outcome("error", e, 0, "", NoVnlBody) : e \in TransportExc}
    \cup {Outcome("response", "", 500, "text/html", NoVnlBody)}
    \cup {Outcome("response", "", 200, "text/html", NoVnlBody)}
    \cup {Outcome("response", "", 200, "application/json", b) : b \in VnlBodies}

(* thumbnail: the body is raw bytes; r.content.read() may itself fail *)
Bytes == {"img1", "img2"}

JBytes(b) == Val("bytes", 0, b)

BytesBody(readExc, content) == [readExc |-> readExc, content |-> content]

BytesOutcomes ==
    {Outcome("error", e, 0, "", BytesBody("", "")) : e \in TransportExc}
    \cup {Outcome("response", "", s, "text/html", BytesBody("", "")) : s \in {404, 500}}
    \cup {Outcome("response", "", 200, "image/webp", BytesBody(e, "")) : e \in TransportExc}
    \cup {Outcome("response", "", 200, "image/webp", BytesBody("", b)) : b \in Bytes}

\* The try block of a bytes GET that reads the body on 200.
BytesFetchExc(o) ==
    IF o.kind = "error" THEN o.exc
    ELSE IF o.status # 200 THEN "Non200"
    ELSE o.body.readExc

(* ---------------- profile URLs ---------------- *)
\* A URL string, written as its parts: scheme "" means the string has no
\* "scheme://" prefix.
Url(scheme, authority, path) == [scheme |-> scheme, authority |-> authority, path |-> path]

NoUrl == Url("", "", "")

Urls ==
    {Url(sc, h, p) : sc \in {"https", ""},
                     h \in {"steamcommunity.com", "www.steamcommunity.com", "example.com"},
                     p \in {"/id/kitty", "/profiles/7"}}

\* urllib.parse.urlparse: without "//" there is no netloc and the host text
\* is part of the path.
UrlParse(u) ==
    IF u.scheme = "" THEN [netloc |-> "", path |-> <<u.authority, u.path>>]
    ELSE [netloc |-> u.authority, path |-> <<u.path>>]

(* ---------------- Steam profile XML ---------------- *)
\* An element of the profile document: absent, or present with its text as
\* a sequence of characters; the empty sequence is an element whose .text
\* is None.
Elem(t, text) == [t |-> t, text |-> text]

NoElem == Elem("absent", <<>>)

IdChars == {"7", "-", "x"}

IdElems == {NoElem} \cup {Elem("elem", x) : x \in SeqsUpTo(IdChars, MaxTextLen)}

AvatarElems == {NoElem, Elem("elem", <<>>), Elem("elem", <<"https://avatars/full.jpg">>)}

XmlBody(readExc, wellformed, id, avatar) ==
    [readExc |-> readExc, wellformed |-> wellformed, steamID64 |-> id, avatarFull |-> avatar]

NoXmlBody == XmlBody("", FALSE, NoElem, NoElem)

XmlOutcomes ==
    {Outcome("error", e, 0, "", NoXmlBody) : e \in TransportExc}
    \cup {Outcome("response", "", 404, "text/html", NoXmlBody)}
    \cup {Outcome("response", "", 200, "text/html", NoXmlBody)}
    \cup {Outcome("response", "", 200, "text/xml", XmlBody(e, FALSE, NoElem, NoElem)) : e \in TransportExc}
    \cup {Outcome("response", "", 200, "text/xml", NoXmlBody)}
    \cup {Outcome("response", "", 200, "text/xml", XmlBody("", TRUE, i, a)) :
             i \in IdElems, a \in AvatarElems}

IsDigit(c) == c = "7"

DigitVal(c) == IF c = "7" THEN 7 ELSE 0

RECURSIVE DigitsVal(_)
DigitsVal(x) ==
    IF Len(x) = 0 THEN 0
    ELSE 10 * DigitsVal(SubSeq(x, 1, Len(x) - 1)) + DigitVal(x[Len(x)])

AllDigits(x) == Len(x) >= 1 /\ \A i \in 1..Len(x) : IsDigit(x[i])

\* int(text): an optional sign followed by digits, ValueError otherwise.
ParseInt(x) ==
    IF AllDigits(x) THEN [ok |-> TRUE, n |-> DigitsVal(x)]
    ELSE IF Len(x) >= 2 /\ x[1] = "-" /\ AllDigits(Tail(x))
    THEN [ok |-> TRUE, n |-> 0 - DigitsVal(Tail(x))]
    ELSE [ok |-> FALSE, n |-> 0]

(* ---------------- leaderboard bodies ---------------- *)
Item(t, pn, tm, tp, pt, co) ==
    [t |-> t, player_name |-> pn, time |-> tm, teleports |-> tp, points |-> pt,
     created_on |-> co]

\* time is a float in units of 0.1 microsecond: 123455 is 12.3455 ms.
GoodItem == Item("dict", JStr("kitty"), JFloat(123455), JInt(2), JInt(900),
                 JStr("2020-01-01T00:00:00"))

Items ==
    {GoodItem}
    \cup {[GoodItem EXCEPT !.player_name = v] : v \in {Absent, None, JInt(1)}}
    \cup {[GoodItem EXCEPT !.time = v] : v \in {JFloat(20), JInt(12), JStr("12.5")}}
    \cup {[GoodItem EXCEPT !.teleports = v] : v \in {JInt(0), JStr("2"), JBool(1)}}
    \cup {[GoodItem EXCEPT !.points = v] : v \in {Absent, JBool(0)}}
    \cup {[GoodItem EXCEPT !.created_on = v] :
             v \in {JStr("2020-01-01T00:00:00+02:00"), JStr("yesterday"), JInt(2020)}}
    \cup {Item(t, Absent, Absent, Absent, Absent, Absent) : t \in {"int", "NoneType"}}

PbsBody(t, items) == [t |-> t, items |-> items]

NoPbsBody == PbsBody("undecodable", <<>>)

PbsBodies ==
    {PbsBody("list", x) : x \in SeqsUpTo(Items, MaxItems)}
    \cup {PbsBody(t, <<>>) : t \in {"dict", "NoneType", "undecodable"}}

PbsOutcomes ==
    {Outcome("error", e, 0, "", NoPbsBody) : e \in TransportExc}
    \cup {Outcome("response", "", 500, "text/html", NoPbsBody)}
    \cup {Outcome("response", "", 200, "text/html", NoPbsBody)}
    \cup {Outcome("response", "", 200, "application/json", b) : b \in PbsBodies}

\* datetime.fromisoformat on the strings of the model: the naive date-time
\* and the offset, or ValueError.
FromIsoFormat(s) ==
    CASE s = "2020-01-01T00:00:00" ->
            [ok |-> TRUE, naive |-> "2020-01-01T00:00:00", tzinfo |-> "None"]
      [] s = "2020-01-01T00:00:00+02:00" ->
            [ok |-> TRUE, naive |-> "2020-01-01T00:00:00", tzinfo |-> "+02:00"]
      [] OTHER -> [ok |-> FALSE, naive |-> "", tzinfo |-> ""]

\* date.replace(tzinfo=timezone.utc)
ReplaceTzUtc(d) == [d EXCEPT !.tzinfo = "UTC"]

\* timedelta(seconds=time): microseconds, rounded half to even.
Timedelta(v) ==
    LET q == v.n \div 10
        r == v.n % 10
    IN IF r > 5 \/ (r = 5 /\ q % 2 = 1) THEN q + 1 ELSE q

\* api.PersonalBest
PersonalBest(pn, mn, md, tm, tp, pt, dt) ==
    [player_name |-> pn, map_name |-> mn, mode |-> md, time |-> tm,
     teleports |-> tp, points |-> pt, date |-> dt]

(* ---------------- results ---------------- *)
NoResult == [kind |-> "none", exc |-> "", value |-> None]
Raise(e) == [kind |-> "raise", exc |-> e, value |-> None]
Return(v) == [kind |-> "return", exc |-> "", value |-> v]

\* api.Map
Map(n, t, vt, vpt, th) ==
    [name |-> n, tier |-> t, vnl_tier |-> vt, vnl_pro_tier |-> vpt, thumbnail |-> th]

Init ==
    /\ pc = "idle"
    /\ op = "none"
    /\ name = <<>>
    /\ mode = "KZT"
    /\ url = NoUrl
    /\ steamid64 = 0
    /\ requests = <<>>
    /\ responses = <<>>
    /\ tier = None
    /\ vnl_tier = None
    /\ vnl_pro_tier = None
    /\ result = NoResult

\* The coroutine ends: the caller sees result.
Finish(r) ==
    /\ pc' = "done"
    /\ result' = r

(* ---------------- map_for_name ---------------- *)
\* `except ClientError` around a fetch whose failures are fatal: ClientError
\* and the explicit raise on a non-200 status become `fatal`, anything else
\* leaves the handler unchanged.
FatalExc(e, fatal) == IF e \in {"ClientError", "Non200"} THEN fatal ELSE e

\* _vnl_tiers_for_map with one bad field discarding both ratings.
VnlTiersForMap_AllOrNothing(o) ==
    LET e == JsonFetchExc(o) IN
    IF e \in {"ClientError", "Non200"} THEN <<"", None, None>>
    ELSE IF e # "" THEN <<e, None, None>>
    ELSE IF o.body.t # "dict" THEN <<"", None, None>>
    ELSE LET tp == Get(o.body, "tpTier")
             pro == Get(o.body, "proTier")
         IN IF IsInstanceInt(tp) /\ IsInstanceInt(pro)
            THEN <<"", tp, pro>> ELSE <<"", None, None>>

\* _vnl_tiers_for_map once the response is in: <<exc, tp_tier, pro_tier>>.
VnlTiersForMap(o) ==
    LET e == JsonFetchExc(o) IN
    IF e \in {"ClientError", "Non200"} THEN <<"", None, None>>
    ELSE IF e # "" THEN <<e, None, None>>
    ELSE IF o.body.t # "dict" THEN <<"", None, None>>
    ELSE LET tp == Get(o.body, "tpTier")
             pro == Get(o.body, "proTier")
         IN <<"",
              IF IsInstanceInt(tp) THEN tp ELSE None,
              IF IsInstanceInt(pro) THEN pro ELSE None>>

\* The mode test taking every mode but KZT for vanilla.
IsVnl_NotKzt(m) == m # "KZT"

\* mode == Mode.VNL
IsVnl(m) == m = "VNL"

\* Entry of map_for_name up to the first await.
MapForName(n, m) ==
    /\ pc = "idle"
    /\ op' = "map_for_name"
    /\ name' = n
    /\ mode' = m
    /\ responses' = <<>>
    /\ IF ~FullMatchName(n)
       THEN /\ Finish(Raise("APIMapError"))
            /\ requests' = <<>>
       ELSE /\ pc' = "map_primary"
            /\ requests' = <<"primary">>
            /\ result' = NoResult
    /\ UNCHANGED <<url, steamid64, tier, vnl_tier, vnl_pro_tier>>

\* The primary step with a null answer treated as any other non-object.
MapPrimaryExc_NullIsApiError(o) ==
    LET e == JsonFetchExc(o) IN
    IF e # "" THEN FatalExc(e, "APIError")
    ELSE IF o.body.t # "dict" THEN "APIError"
    ELSE IF ~IsInstanceInt(Get(o.body, "difficulty")) THEN "APIError"
    ELSE ""

\* Lines 139-159 once the primary response is in: the exception raised,
\* "" when the difficulty passes the type check.
MapPrimaryExc(o) ==
    LET e == JsonFetchExc(o) IN
    IF e # "" THEN FatalExc(e, "APIError")
    ELSE IF o.body.t = "NoneType" THEN "APIMapError"
    ELSE IF o.body.t # "dict" THEN "APIError"
    ELSE IF ~IsInstanceInt(Get(o.body, "difficulty")) THEN "APIError"
    ELSE ""

\* The primary registry answers: lines 139-164, up to the next await.
MapPrimary(o) ==
    /\ pc = "map_primary"
    /\ responses' = Append(responses, o)
    /\ IF MapPrimaryExc(o) # ""
       THEN /\ Finish(Raise(MapPrimaryExc(o)))
            /\ UNCHANGED <<requests, tier, vnl_tier, vnl_pro_tier>>
       ELSE /\ tier' = Get(o.body, "difficulty")
            /\ result' = NoResult
            /\ IF IsVnl(mode)
               THEN /\ pc' = "map_secondary"
                    /\ requests' = Append(requests, "secondary")
                    /\ UNCHANGED <<vnl_tier, vnl_pro_tier>>
               ELSE /\ pc' = "map_thumbnail"
                    /\ requests' = Append(requests, "thumbnail")
                    /\ vnl_tier' = None
                    /\ vnl_pro_tier' = None
    /\ UNCHANGED <<op, name, mode, url, steamid64>>

\* The secondary provider answers: _vnl_tiers_for_map returns or raises,
\* then the thumbnail request is issued.
MapSecondary(o) ==
    /\ pc = "map_secondary"
    /\ responses' = Append(responses, o)
    /\ LET r == VnlTiersForMap(o) IN
       IF r[1] # ""
       THEN /\ Finish(Raise(r[1]))
            /\ UNCHANGED <<requests, vnl_tier, vnl_pro_tier>>
       ELSE /\ vnl_tier' = r[2]
            /\ vnl_pro_tier' = r[3]
            /\ pc' = "map_thumbnail"
            /\ requests' = Append(requests, "thumbnail")
            /\ result' = NoResult
    /\ UNCHANGED <<op, name, mode, url, steamid64, tier>>

\* The thumbnail source answers: lines 168-182.
MapThumbnail(o) ==
    /\ pc = "map_thumbnail"
    /\ responses' = Append(responses, o)
    /\ LET e == BytesFetchExc(o) IN
       IF e = ""
       THEN Finish(Return(Map(name, tier, vnl_tier, vnl_pro_tier, JBytes(o.body.content))))
       ELSE IF e \in {"ClientError", "Non200"}
       THEN Finish(Return(Map(name, tier, vnl_tier, vnl_pro_tier, None)))
       ELSE Finish(Raise(e))
    /\ UNCHANGED <<op, name, mode, url, steamid64, requests, tier, vnl_tier, vnl_pro_tier>>

(* ---------------- _get_steam_profile ---------------- *)
\* _get_steam_profile reporting a parse failure as a fetch failure.
GetSteamProfile_ParseIsHttp(o) ==
    IF o.kind = "error" THEN FatalExc(o.exc, "SteamHTTPError")
    ELSE IF o.status # 200 \/ o.ctype # "text/xml" THEN "SteamHTTPError"
    ELSE IF o.body.readExc # "" THEN FatalExc(o.body.readExc, "SteamHTTPError")
    ELSE IF ~o.body.wellformed THEN "SteamHTTPError"
    ELSE ""

\* _get_steam_profile once the response is in: the exception it raises
\* ("" for none); on "" the parsed document is o.body.
GetSteamProfile(o) ==
    IF o.kind = "error" THEN FatalExc(o.exc, "SteamHTTPError")
    ELSE IF o.status # 200 \/ o.ctype # "text/xml" THEN "SteamHTTPError"
    ELSE IF o.body.readExc # "" THEN FatalExc(o.body.readExc, "SteamHTTPError")
    ELSE IF ~o.body.wellformed THEN "SteamXMLError"
    ELSE ""

\* u.netloc != 'steamcommunity.com'
NetlocOk(u) == u.netloc = "steamcommunity.com"

(* ---------------- steamid64_for_profile ---------------- *)
SteamId64ForProfile(u) ==
    /\ pc = "idle"
    /\ op' = "steamid64_for_profile"
    /\ url' = u
    /\ responses' = <<>>
    /\ IF ~NetlocOk(UrlParse(u))
       THEN /\ Finish(Raise("SteamValueError"))
            /\ requests' = <<>>
       ELSE /\ pc' = "steam_profile"
            /\ requests' = <<"steam_profile">>
            /\ result' = NoResult
    /\ UNCHANGED <<name, mode, steamid64, tier, vnl_tier, vnl_pro_tier>>

\* Lines 75-84 once the profile response is in.
SteamId64Result(o) ==
    LET e == GetSteamProfile(o)
        el == o.body.steamID64
    IN IF e # "" THEN Raise(e)
       ELSE IF el.t = "absent" \/ Len(el.text) = 0 THEN Raise("SteamXMLError")
       ELSE IF ~ParseInt(el.text).ok THEN Raise("SteamXMLError")
       ELSE Return(JInt(ParseInt(el.text).n))

\* The profile document arrives.
SteamProfile(o) ==
    /\ pc = "steam_profile"
    /\ responses' = Append(responses, o)
    /\ Finish(SteamId64Result(o))
    /\ UNCHANGED <<op, name, mode, url, steamid64, requests, tier, vnl_tier, vnl_pro_tier>>

(* ---------------- avatar_for_steamid64 ---------------- *)
SteamIds == {7, 77}

AvatarForSteamId64(id) ==
    /\ pc = "idle"
    /\ op' = "avatar_for_steamid64"
    /\ steamid64' = id
    /\ responses' = <<>>
    /\ pc' = "avatar_profile"
    /\ requests' = <<"steam_profile">>
    /\ result' = NoResult
    /\ UNCHANGED <<name, mode, url, tier, vnl_tier, vnl_pro_tier>>

\* The profile document arrives: lines 88-96, up to the second await.
AvatarProfile(o) ==
    /\ pc = "avatar_profile"
    /\ responses' = Append(responses, o)
    /\ LET e == GetSteamProfile(o)
           el == o.body.avatarFull
       IN IF e # ""
          THEN Finish(Raise(e)) /\ UNCHANGED requests
          ELSE IF el.t = "absent" \/ Len(el.text) = 0
          THEN Finish(Raise("SteamXMLError")) /\ UNCHANGED requests
          ELSE /\ pc' = "avatar_image"
               /\ requests' = Append(requests, "avatar_image")
               /\ result' = NoResult
    /\ UNCHANGED <<op, name, mode, url, steamid64, tier, vnl_tier, vnl_pro_tier>>

\* The image arrives: lines 94-104.
AvatarImage(o) ==
    /\ pc = "avatar_image"
    /\ responses' = Append(responses, o)
    /\ LET e == BytesFetchExc(o) IN
       IF e = "" THEN Finish(Return(JBytes(o.body.content)))
       ELSE Finish(Raise(FatalExc(e, "SteamError")))
    /\ UNCHANGED <<op, name, mode, url, steamid64, requests, tier, vnl_tier, vnl_pro_tier>>

(* ---------------- pbs_for_steamid64 ---------------- *)
\* api_mode
ApiMode(m) ==
    CASE m = "KZT" -> "kz_timer"
      [] m = "SKZ" -> "kz_simple"
      [] m = "VNL" -> "kz_vanilla"

\* One pass of the body of the for loop: the exception raised ("" for none)
\* and the record built.
PbItem(item, mn, md) ==
    LET player_name == Get(item, "player_name")
        time == Get(item, "time")
        teleports == Get(item, "teleports")
        points == Get(item, "points")
        created_on == Get(item, "created_on")
        date == FromIsoFormat(created_on.s)
    IN IF item.t # "dict" THEN [exc |-> "AttributeError", pb |-> None]
       ELSE IF ~IsInstanceStr(player_name) /\ player_name # None
       THEN [exc |-> "APIError", pb |-> None]
       ELSE IF \/ ~IsInstanceFloat(time)
               \/ ~IsInstanceInt(teleports)
               \/ ~IsInstanceInt(points)
               \/ ~IsInstanceStr(created_on)
       THEN [exc |-> "APIError", pb |-> None]
       ELSE IF ~date.ok THEN [exc |-> "APIError", pb |-> None]
       ELSE [exc |-> "",
             pb |-> PersonalBest(player_name, mn, md, Timedelta(time), teleports,
                                 points, ReplaceTzUtc(date))]

\* The for loop from element i on, pbs being the list built so far: the
\* first exception ends it.
RECURSIVE PbsLoop(_, _, _, _, _)
PbsLoop(items, i, pbs, mn, md) ==
    IF i > Len(items) THEN [exc |-> "", pbs |-> pbs]
    ELSE LET r == PbItem(items[i], mn, md)
         IN IF r.exc # "" THEN [exc |-> r.exc, pbs |-> <<>>]
            ELSE PbsLoop(items, i + 1, Append(pbs, r.pb), mn, md)

PbsNames == {<<122>>, <<45>>}

PbsForSteamId64(id, mn, md) ==
    /\ pc = "idle"
    /\ op' = "pbs_for_steamid64"
    /\ steamid64' = id
    /\ name' = mn
    /\ mode' = md
    /\ responses' = <<>>
    /\ pc' = "pbs_fetch"
    /\ requests' = <<"leaderboard_" \o ApiMode(md)>>
    /\ result' = NoResult
    /\ UNCHANGED <<url, tier, vnl_tier, vnl_pro_tier>>

\* The leaderboard answers: lines 191-234.
PbsFetch(o) ==
    /\ pc = "pbs_fetch"
    /\ responses' = Append(responses, o)
    /\ LET e == JsonFetchExc(o) IN
       IF e # "" THEN Finish(Raise(FatalExc(e, "APIError")))
       ELSE IF o.body.t # "list" THEN Finish(Raise("APIError"))
       ELSE LET r == PbsLoop(o.body.items, 1, <<>>, name, mode)
            IN IF r.exc # "" THEN Finish(Raise(r.exc))
               ELSE Finish(Return(r.pbs))
    /\ UNCHANGED <<op, name, mode, url, steamid64, requests, tier, vnl_tier, vnl_pro_tier>>

\* The caller has consumed the result; locals of the call are gone.
Done ==
    /\ pc = "done"
    /\ pc' = "idle"
    /\ op' = "none"
    /\ name' = <<>>
    /\ mode' = "KZT"
    /\ url' = NoUrl
    /\ steamid64' = 0
    /\ requests' = <<>>
    /\ responses' = <<>>
    /\ tier' = None
    /\ vnl_tier' = None
    /\ vnl_pro_tier' = None
    /\ result' = NoResult

Next ==
    \/ \E n \in Names, m \in Mode : MapForName(n, m)
    \/ \E o \in PrimaryOutcomes : MapPrimary(o)
    \/ \E o \in VnlOutcomes : MapSecondary(o)
    \/ \E o \in BytesOutcomes : MapThumbnail(o)
    \/ \E u \in Urls : SteamId64ForProfile(u)
    \/ \E o \in XmlOutcomes : SteamProfile(o)
    \/ \E id \in SteamIds : AvatarForSteamId64(id)
    \/ \E o \in XmlOutcomes : AvatarProfile(o)
    \/ \E o \in BytesOutcomes : AvatarImage(o)
    \/ \E id \in SteamIds, mn \in PbsNames, md \in Mode : PbsForSteamId64(id, mn, md)
    \/ \E o \in PbsOutcomes : PbsFetch(o)
    \/ Done

Spec == Init /\ [][Next]_vars

(* ======================= properties ======================= *)
InMap == op = "map_for_name"

Count(q, x) == Cardinality({i \in 1..Len(q) : q[i] = x})

\* The name pattern of the specification, [A-Za-z0-9_]+.
InSpecClass(c) ==
    \/ (65 <= c /\ c <= 90)
    \/ (97 <= c /\ c <= 122)
    \/ (48 <= c /\ c <= 57)
    \/ c = 95

SpecNameOk(n) == Len(n) >= 1 /\ \A i \in 1..Len(n) : InSpecClass(n[i])

IsJson200(o) == o.kind = "response" /\ o.status = 200 /\ o.ctype = "application/json"

\* The primary registry sent a JSON object with an integer difficulty.
PrimaryGood(o) == IsJson200(o) /\ o.body.t = "dict" /\ o.body.difficulty.t = "int"

\* C1: a name that is not one or more characters of A-Z a-z 0-9 _ makes
\* map_for_name fail at once with APIMapError, and no request is issued.
C1_InvalidNameNoRequest ==
    (InMap /\ ~SpecNameOk(name)) =>
        (pc = "done" /\ result = Raise("APIMapError") /\ requests = <<>>)

\* The secondary outcomes C2 lists: transport error, timeout, status other
\* than 200, undecodable body, JSON that is not an object.
SecondaryFailed(o) ==
    \/ o.kind = "error"
    \/ o.status # 200
    \/ o.ctype # "application/json"
    \/ o.body.t # "dict"

\* C2: in vanilla mode, after a primary answer with an integer difficulty,
\* a failed secondary request never ends the call: the call goes on to the
\* thumbnail with both secondary ratings None, and a returned Map has the
\* primary difficulty as tier and both secondary ratings None.
C2_SecondaryNeverAborts ==
    (/\ InMap
     /\ mode = "VNL"
     /\ Len(responses) >= 2
     /\ PrimaryGood(responses[1])
     /\ SecondaryFailed(responses[2])) =>
        /\ vnl_tier = None /\ vnl_pro_tier = None
        /\ tier = responses[1].body.difficulty
        /\ Len(responses) = 2 => pc = "map_thumbnail"
        /\ result.kind = "return" =>
              /\ result.value.tier = responses[1].body.difficulty
              /\ result.value.vnl_tier = None
              /\ result.value.vnl_pro_tier = None

\* The secondary provider answered 200 with a JSON object.
SecondaryObject ==
    /\ InMap
    /\ mode = "VNL"
    /\ Len(responses) >= 2
    /\ IsJson200(responses[2])
    /\ responses[2].body.t = "dict"

\* C3 as stated: when the secondary provider sends a JSON object in which
\* tpTier or proTier is missing or not an integer, both vnl_tier and
\* vnl_pro_tier are None.
C3_BothAbsentOnAnyBadField ==
    (/\ SecondaryObject
     /\ \/ responses[2].body.tpTier.t # "int"
        \/ responses[2].body.proTier.t # "int") =>
        /\ vnl_tier = None /\ vnl_pro_tier = None
        /\ result.kind = "return" =>
              (result.value.vnl_tier = None /\ result.value.vnl_pro_tier = None)

\* What one secondary field becomes: the value sent when its type passes
\* isinstance(int) (integers and booleans), None otherwise.
RatingOf(v) == IF v.t \in {"int", "bool"} THEN v ELSE None

\* C3 amended: when the secondary provider sends a JSON object, each of
\* vnl_tier and vnl_pro_tier is decided by its own field alone: it is the
\* value sent when that value is an integer (or a boolean), None when the
\* field is missing or of another type, whatever the other field holds.
C3_EachRatingOnItsOwn ==
    SecondaryObject =>
        /\ vnl_tier = RatingOf(responses[2].body.tpTier)
        /\ vnl_pro_tier = RatingOf(responses[2].body.proTier)
        /\ result.kind = "return" =>
              /\ result.value.vnl_tier = RatingOf(responses[2].body.tpTier)
              /\ result.value.vnl_pro_tier = RatingOf(responses[2].body.proTier)

\* A Map came back although tpTier was a string: vnl_tier is None and
\* vnl_pro_tier is the integer sent.
C3_Witness ==
    /\ SecondaryObject
    /\ pc = "done"
    /\ result.kind = "return"
    /\ responses[2].body.tpTier = JStr("4")
    /\ responses[2].body.proTier = JInt(6)
    /\ result.value.vnl_tier = None
    /\ result.value.vnl_pro_tier = JInt(6)

\* The thumbnail request of the call has been answered.
ThumbnailAnswered ==
    /\ InMap
    /\ Len(requests) >= 2
    /\ requests[Len(requests)] = "thumbnail"
    /\ Len(responses) = Len(requests)

ThumbnailOf(o) ==
    IF o.kind = "response" /\ o.status = 200 /\ o.body.readExc = ""
    THEN JBytes(o.body.content) ELSE None

\* C4: whatever the thumbnail request does, map_for_name returns a Map;
\* its name, tier and secondary ratings are those computed before the
\* thumbnail step, and thumbnail is the bytes of a 200 response, else None.
C4_ThumbnailNeverAborts ==
    ThumbnailAnswered =>
        /\ pc = "done"
        /\ result = Return(Map(name, tier, vnl_tier, vnl_pro_tier,
                                ThumbnailOf(responses[Len(responses)])))

\* An element of the leaderboard array as the specification wants it.
ItemValid(it) ==
    /\ it.t = "dict"
    /\ it.player_name.t \in {"str", "absent", "NoneType"}
    /\ it.time.t = "float"
    /\ it.teleports.t = "int"
    /\ it.points.t = "int"
    /\ it.created_on.t = "str"
    /\ it.created_on.s \in {"2020-01-01T00:00:00", "2020-01-01T00:00:00+02:00"}

PbsListAnswered ==
    /\ op = "pbs_for_steamid64"
    /\ Len(responses) = 1
    /\ IsJson200(responses[1])
    /\ responses[1].body.t = "list"

\* C5: pbs_for_steamid64 is all or nothing: one invalid element anywhere in
\* the array makes the call raise APIError; when every element is valid
\* there is one record per element, in the order of the array.
C5_AllOrNothing ==
    PbsListAnswered =>
        LET items == responses[1].body.items IN
        /\ pc = "done"
        /\ IF \A i \in 1..Len(items) : ItemValid(items[i])
           THEN /\ result.kind = "return"
                /\ Len(result.value) = Len(items)
                /\ \A i \in 1..Len(items) :
                      /\ result.value[i].teleports = items[i].teleports
                      /\ result.value[i].points = items[i].points
                      /\ result.value[i].time = Timedelta(items[i].time)
                      /\ result.value[i].player_name = Get(items[i], "player_name")
           ELSE result = Raise("APIError")

\* The four kinds of the taxonomy, read off the inputs of a map_for_name
\* call that has ended: n the name, rs the responses received.
MapCause(n, rs) ==
    IF ~SpecNameOk(n) THEN "InvalidInput"
    ELSE IF Len(rs) = 0 THEN "none"
    ELSE IF rs[1].kind = "error" \/ rs[1].status # 200 THEN "UpstreamUnavailable"
    ELSE IF rs[1].ctype # "application/json" \/ rs[1].body.t = "undecodable"
    THEN "UpstreamMalformed"
    ELSE IF rs[1].body.t = "NoneType" THEN "NotFound"
    ELSE IF rs[1].body.t # "dict" \/ rs[1].body.difficulty.t # "int" THEN "UpstreamMalformed"
    ELSE "none"

\* The primary registry answered 200 with JSON null.
PrimaryNull ==
    /\ InMap
    /\ Len(responses) >= 1
    /\ IsJson200(responses[1])
    /\ responses[1].body.t = "NoneType"

\* C6 as stated: a null answer of the primary registry ends the call with
\* an error and no further request, and that error is raised for no call
\* of another kind (InvalidInput, UpstreamMalformed, UpstreamUnavailable).
C6_NotFoundDistinctFromAll ==
    /\ PrimaryNull =>
          (pc = "done" /\ result.kind = "raise" /\ requests = <<"primary">>)
    /\ (InMap /\ pc = "done" /\ result = Raise("APIMapError")) =>
          MapCause(name, responses) = "NotFound"

\* C6 amended: a null answer of the primary registry ends the call with
\* APIMapError and no further request; APIMapError is raised for no
\* UpstreamMalformed or UpstreamUnavailable outcome, but it is also the
\* error of a name rejected by validation.
C6_NotFoundDistinctFromUpstream ==
    /\ PrimaryNull =>
          (pc = "done" /\ result = Raise("APIMapError") /\ requests = <<"primary">>)
    /\ (InMap /\ pc = "done" /\ result = Raise("APIMapError")) =>
          \/ PrimaryNull
          \/ (~FullMatchName(name) /\ requests = <<>>)
    /\ (InMap /\ pc = "done" /\ ~FullMatchName(name)) => result = Raise("APIMapError")

C6_Witness ==
    /\ PrimaryNull
    /\ pc = "done"
    /\ SpecNameOk(name)
    /\ result = Raise("APIMapError")

InSteamId == op = "steamid64_for_profile"

\* The failure point of a steamid64_for_profile call on URL u whose request
\* is answered by o: 1 host, 2 fetch, 3 not XML, 4 no steamID64 text,
\* 5 text not an integer; 6 is success, 0 a failure the list leaves out
\* (a timeout).
SteamCause(u, o) ==
    IF UrlParse(u).netloc # "steamcommunity.com" THEN 1
    ELSE IF o.kind = "error" THEN (IF o.exc = "ClientError" THEN 2 ELSE 0)
    ELSE IF o.status # 200 \/ o.ctype # "text/xml" THEN 2
    ELSE IF o.body.readExc # "" THEN (IF o.body.readExc = "ClientError" THEN 2 ELSE 0)
    ELSE IF ~o.body.wellformed THEN 3
    ELSE IF o.body.steamID64.t = "absent" \/ o.body.steamID64.text = <<>> THEN 4
    ELSE IF ~ParseInt(o.body.steamID64.text).ok THEN 5
    ELSE 6

\* What steamid64_for_profile(u) ends with when its request is answered by o.
SteamId64Outcome(u, o) ==
    IF ~NetlocOk(UrlParse(u)) THEN Raise("SteamValueError") ELSE SteamId64Result(o)

\* The failure point of the call that has just ended.
SteamCauseNow ==
    IF Len(responses) = 0 THEN SteamCause(url, CHOOSE o \in XmlOutcomes : TRUE)
    ELSE SteamCause(url, responses[1])

\* C7 as stated: the error of each of the five failure points is raised at
\* none of the other four; a rejected host issues no request, a successful
\* call issues exactly one.
C7_FiveDistinctKinds ==
    (InSteamId /\ pc = "done") =>
        /\ SteamCauseNow \in 1..5 =>
              /\ result.kind = "raise"
              /\ \A u \in Urls, o \in XmlOutcomes :
                    (SteamCause(u, o) \in 1..5 /\ SteamCause(u, o) # SteamCauseNow)
                        => SteamId64Outcome(u, o) # result
        /\ SteamCauseNow = 1 => requests = <<>>
        /\ SteamCauseNow = 6 => (result.kind = "return" /\ Len(requests) = 1)

\* C7 amended: the five failure points are reported as three kinds: a
\* foreign host as SteamValueError before any request, a failed fetch as
\* SteamHTTPError, and ill-formed XML, a missing or empty steamID64 and a
\* non-integer steamID64 all as SteamXMLError; a successful call issues
\* exactly one request.
C7_ThreeKinds ==
    (InSteamId /\ pc = "done") =>
        /\ SteamCauseNow = 1 => (result = Raise("SteamValueError") /\ requests = <<>>)
        /\ SteamCauseNow = 2 => result = Raise("SteamHTTPError")
        /\ SteamCauseNow \in 3..5 => result = Raise("SteamXMLError")
        /\ SteamCauseNow = 6 =>
              /\ result = Return(JInt(ParseInt(responses[1].body.steamID64.text).n))
              /\ requests = <<"steam_profile">>

\* A call ended at failure point 5: the steamID64 text is not an integer.
C7_Witness ==
    /\ InSteamId
    /\ pc = "done"
    /\ Len(responses) = 1
    /\ SteamCauseNow = 5
    /\ result = Raise("SteamXMLError")

\* The primary step of the call is over without an error: a JSON object
\* came back with status 200 and the call went on.
PrimaryPassed ==
    /\ Len(responses) >= 1
    /\ IsJson200(responses[1])
    /\ responses[1].body.t = "dict"
    /\ requests[1] = "primary"
    /\ Len(requests) >= 2

DeclaredErrors ==
    {"SteamValueError", "SteamHTTPError", "SteamXMLError", "SteamError",
     "APIError", "APIMapError"}

\* The call ended in a mandatory step: any step but the secondary and the
\* thumbnail request of map_for_name.
EndedInMandatoryStep ==
    /\ pc = "done"
    /\ result.kind = "raise"
    /\ InMap => Len(responses) <= 1

\* C9: a failure of a mandatory step reaches the caller as one of the
\* declared errors, a timeout and an undecodable body included: SteamError
\* or a subclass from the two Steam resolvers, APIError or APIMapError from
\* map_for_name and pbs_for_steamid64.
C9_OnlyDeclaredErrors ==
    EndedInMandatoryStep =>
        /\ result.exc \in DeclaredErrors
        /\ op \in {"steamid64_for_profile", "avatar_for_steamid64"} =>
              result.exc \in {"SteamValueError", "SteamHTTPError", "SteamXMLError", "SteamError"}
        /\ op \in {"map_for_name", "pbs_for_steamid64"} =>
              result.exc \in {"APIError", "APIMapError"}

\* C10: a request after the primary one, or a returned Map, means the
\* primary registry sent a JSON object with an integer difficulty; any
\* other primary answer but null ends the call with APIError and the
\* primary request alone; a returned Map has that difficulty as tier and
\* the input name as name.
C10_TierGate ==
    (InMap /\ Len(responses) >= 1) =>
        /\ (Len(requests) >= 2 \/ result.kind = "return") => PrimaryGood(responses[1])
        /\ (~PrimaryGood(responses[1]) /\ ~PrimaryNull) =>
              (pc = "done" /\ result = Raise("APIError") /\ requests = <<"primary">>)
        /\ Count(requests, "primary") = 1
        /\ result.kind = "return" =>
              /\ result.value.tier = responses[1].body.difficulty
              /\ result.value.name = name

====
